---- MODULE Spec2Model ----
(***************************************************************************)
(* R1_web_crawler.py: search -> URL selection by an LLM -> extraction      *)
(* submission -> status polling.  Text is a sequence of one-character      *)
(* strings; JSON field values are tokens with Python's truthiness.         *)
(***************************************************************************)
EXTENDS Integers, Sequences, FiniteSets, TLC

(* ------------------------------------------------------------------ *)
(* Bounds of the model                                                 *)
(* ------------------------------------------------------------------ *)
MaxTail == 2
MaxUrls == 2
MaxAttemptsArg == 13

(* ------------------------------------------------------------------ *)
(* Python str operations used by select_urls_with_r1                   *)
(* ------------------------------------------------------------------ *)
Whitespace == {" ", "\t", "\r", "\n"}

RECURSIVE LStrip(_)
LStrip(s) ==
    IF s # <<>> /\ Head(s) \in Whitespace THEN LStrip(Tail(s)) ELSE s

RECURSIVE RStrip(_)
RStrip(s) ==
    IF s # <<>> /\ s[Len(s)] \in Whitespace
    THEN RStrip(SubSeq(s, 1, Len(s) - 1)) ELSE s

\* str.strip()
Strip(s) == RStrip(LStrip(s))

\* str.startswith(p)
StartsWith(s, p) == Len(s) >= Len(p) /\ SubSeq(s, 1, Len(p)) = p

HttpPrefix == <<"h", "t", "t", "p", ":", "/", "/">>
HttpsPrefix == <<"h", "t", "t", "p", "s", ":", "/", "/">>

\* line.strip().startswith(('http://', 'https://'))
IsUrlLine(line) ==
    StartsWith(Strip(line), HttpPrefix) \/ StartsWith(Strip(line), HttpsPrefix)

\* response_text.split('\n')
RECURSIVE SplitLines(_)
SplitLines(s) ==
    IF \E i \in 1..Len(s) : s[i] = "\n"
    THEN LET i == CHOOSE k \in 1..Len(s) :
                     s[k] = "\n" /\ \A j \in 1..(k - 1) : s[j] # "\n"
         IN <<SubSeq(s, 1, i - 1)>> \o SplitLines(SubSeq(s, i + 1, Len(s)))
    ELSE <<s>>

\* url.replace('/*', ''): every non-overlapping occurrence, left to right
RECURSIVE ReplaceWildcard(_)
ReplaceWildcard(s) ==
    IF Len(s) < 2 THEN s
    ELSE IF s[1] = "/" /\ s[2] = "*"
         THEN ReplaceWildcard(SubSeq(s, 3, Len(s)))
         ELSE <<s[1]>> \o ReplaceWildcard(Tail(s))

\* url.rstrip('/')
RECURSIVE RStripSlash(_)
RStripSlash(s) ==
    IF s # <<>> /\ s[Len(s)] = "/"
    THEN RStripSlash(SubSeq(s, 1, Len(s) - 1)) ELSE s

\* the trailing slash is left in place
CleanUrlNoRStrip(url) == ReplaceWildcard(url)

\* url.replace('/*', '').rstrip('/')
CleanUrl(url) == RStripSlash(ReplaceWildcard(url))

\* [line.strip() for line in response_text.split('\n')
\*  if line.strip().startswith(('http://', 'https://'))]
RECURSIVE UrlLines(_)
UrlLines(lines) ==
    IF lines = <<>> THEN <<>>
    ELSE (IF IsUrlLine(Head(lines)) THEN <<Strip(Head(lines))>> ELSE <<>>)
         \o UrlLines(Tail(lines))

ScanLines(content) == UrlLines(SplitLines(content))

\* cleaned_urls = [url.replace('/*', '').rstrip('/') for url in urls]
RECURSIVE CleanEach(_)
CleanEach(urls) ==
    IF urls = <<>> THEN <<>>
    ELSE <<CleanUrl(Head(urls))>> \o CleanEach(Tail(urls))

\* cleaned_urls = [url for url in cleaned_urls if url]
RECURSIVE DropEmpty(_)
DropEmpty(urls) ==
    IF urls = <<>> THEN <<>>
    ELSE (IF Head(urls) # <<>> THEN <<Head(urls)>> ELSE <<>>)
         \o DropEmpty(Tail(urls))

(* ------------------------------------------------------------------ *)
(* select_urls_with_r1                                                 *)
(*                                                                     *)
(* An LLM response is [api, doc, kind, items, content]:                *)
(*   api     "ok" | "error"   client.chat.completions.create raised    *)
(*   doc     what json.loads(content) gives: "invalid" (JSONDecode-    *)
(*           Error), "none" (content is None: TypeError), "object_urls" *)
(*           (a dict holding selected_urls), "other" (any other JSON)  *)
(*   kind    the Python type of result["selected_urls"]: "array",      *)
(*           "string", "scalar" (null, number, bool)                   *)
(*   items   the array's elements, each [isstr, chars]; for a string   *)
(*           value its characters are in items[1].chars                *)
(*   content the message text, read only by the line scan              *)
(* ------------------------------------------------------------------ *)
Item(chars) == [isstr |-> TRUE, chars |-> chars]
NonString == [isstr |-> FALSE, chars |-> <<>>]

Ok(urls) == [exc |-> "none", urls |-> urls]
Raise(e) == [exc |-> e, urls |-> <<>>]

RECURSIVE AsItems(_)
AsItems(strs) ==
    IF strs = <<>> THEN <<>> ELSE <<Item(Head(strs))>> \o AsItems(Tail(strs))

RECURSIVE CharsOf(_)
CharsOf(items) ==
    IF items = <<>> THEN <<>> ELSE <<Head(items).chars>> \o CharsOf(Tail(items))

\* Iterating result["selected_urls"]: a list gives its elements, a str its
\* characters, None or a number raises TypeError.
IterateSelected(resp) ==
    IF resp.kind = "array" THEN Ok(resp.items)
    ELSE IF resp.kind = "string"
         THEN Ok([i \in 1..Len(resp.items[1].chars) |->
                    Item(<<resp.items[1].chars[i]>>)])
         ELSE Raise("TypeError")

\* json.JSONDecodeError is not handled by a line scan
ParseUrlsNoFallback(resp) ==
    IF resp.doc = "none" THEN Raise("TypeError")
    ELSE IF resp.doc = "invalid" THEN Raise("JSONDecodeError")
    ELSE IF resp.doc = "object_urls" THEN IterateSelected(resp)
    ELSE Ok(AsItems(ScanLines(resp.content)))

\* Lines 64-78: the inner try, its else branch and its JSONDecodeError handler.
ParseUrls(resp) ==
    IF resp.doc = "none" THEN Raise("TypeError")
    ELSE IF resp.doc = "invalid" THEN Ok(AsItems(ScanLines(resp.content)))
    ELSE IF resp.doc = "object_urls" THEN IterateSelected(resp)
    ELSE Ok(AsItems(ScanLines(resp.content)))

\* Lines 80-82: url.replace on an element that is no str raises AttributeError.
CleanedUrls(urls) ==
    IF \E i \in 1..Len(urls) : ~urls[i].isstr THEN Raise("AttributeError")
    ELSE Ok(DropEmpty(CleanEach(CharsOf(urls))))

\* Lines 39-92: the body of the outer try.
SelectBody(resp) ==
    IF resp.api = "error" THEN Raise("APIError")
    ELSE LET parsed == ParseUrls(resp)
         IN IF parsed.exc # "none" THEN parsed ELSE CleanedUrls(parsed.urls)

\* Lines 94-96: except Exception -> return [].
select_urls_with_r1(resp) ==
    LET body == SelectBody(resp)
    IN IF body.exc # "none" THEN [raised |-> FALSE, urls |-> <<>>]
       ELSE [raised |-> FALSE, urls |-> body.urls]

(* ------------------------------------------------------------------ *)
(* Inputs of select_urls_with_r1                                       *)
(* ------------------------------------------------------------------ *)
TailAlphabet == {"/", "*"}

RECURSIVE SeqsUpTo(_)
SeqsUpTo(n) ==
    IF n = 0 THEN {<<>>}
    ELSE LET S == SeqsUpTo(n - 1)
         IN S \cup {Append(s, c) : s \in S, c \in TailAlphabet}

HostHttp == HttpPrefix \o <<"a">>
HostHttps == HttpsPrefix \o <<"a">>
HostFtp == <<"f", "t", "p", ":", "/", "/", "a">>

UrlStrings ==
    {b \o t : b \in {HostHttp, HostFtp}, t \in SeqsUpTo(MaxTail)}
    \cup {HostHttps \o <<"/">>,
          HostHttp \o <<"/", "/", "*", "*">>,
          <<" ">> \o HostHttp \o <<"/", "*", " ">>,
          <<"/", "*">>,
          <<>>}

\* the elements of a selected_urls array: strings, and a number
UrlItems == {Item(u) : u \in UrlStrings} \cup {NonString}

RECURSIVE JoinLines(_)
JoinLines(lines) ==
    IF lines = <<>> THEN <<>>
    ELSE IF Len(lines) = 1 THEN lines[1]
    ELSE lines[1] \o <<"\n">> \o JoinLines(Tail(lines))

LLM(api, doc, kind, items, content) ==
    [api |-> api, doc |-> doc, kind |-> kind, items |-> items, content |-> content]

\* {"selected_urls": [...]} with string and non-string elements
ArrayResponse(items) == LLM("ok", "object_urls", "array", items, <<>>)

\* free text: no character of UrlStrings can begin a JSON document
TextResponse(lines) == LLM("ok", "invalid", "scalar", <<>>, JoinLines(lines))

\* {"selected_urls": "http://a/"}, {"selected_urls": null}, a message whose
\* content is None, and a request that raised
OddResponses ==
    {LLM("ok", "object_urls", "string", <<Item(HostHttp \o <<"/">>)>>, <<>>),
     LLM("ok", "object_urls", "scalar", <<>>, <<>>),
     LLM("ok", "none", "scalar", <<>>, <<>>),
     LLM("error", "none", "scalar", <<>>, <<>>)}

\* valid JSON without selected_urls: ["http://a"] and a pretty-printed
\* {"urls": ["http://a/*"]}
JsonList == <<"[", "\"">> \o HostHttp \o <<"\"", "]">>
JsonPretty ==
    <<"{", "\n", " ", "\"", "u", "r", "l", "s", "\"", ":", " ", "[", "\n",
      " ", " ", "\"">> \o HostHttp \o <<"/", "*", "\"", "\n", " ", "]", "\n", "}">>
OtherJsonResponses ==
    {LLM("ok", "other", "scalar", <<>>, JsonList),
     LLM("ok", "other", "scalar", <<>>, JsonPretty)}

\* The responses the full pipeline is run on.
PipelineLLMResponses ==
    {LLM("ok", "object_urls", "array", <<Item(HostHttp \o <<"/", "*">>)>>, <<>>),
     LLM("ok", "object_urls", "array", <<Item(<<"/", "*">>)>>, <<>>),
     LLM("ok", "object_urls", "array", <<NonString>>, <<>>),
     LLM("ok", "invalid", "scalar", <<>>, HostHttps \o <<"/">>),
     LLM("ok", "invalid", "scalar", <<>>, HostFtp),
     LLM("error", "none", "scalar", <<>>, <<>>)}

(* ------------------------------------------------------------------ *)
(* JSON field values and Python truthiness                             *)
(* ------------------------------------------------------------------ *)
\* dict.get(key) of a missing key is None, like an explicit null: "null".
\* "None" is the None a function of the program returns.
Falsy == {"null", "None", "false", "empty_object", "empty_string"}
Truthy(v) == v \notin Falsy

DefaultInterval == 5
DefaultMaxAttempts == 12

(* ------------------------------------------------------------------ *)
(* search_google                                                       *)
(* ------------------------------------------------------------------ *)
\* What SerpAPI's get_dict() does: raise, or return a dict with or without
\* organic_results; a result is [link], whether it carries a link.
SearchOutcomes ==
    {[raises |-> TRUE, has_organic |-> FALSE, organic |-> <<>>],
     [raises |-> FALSE, has_organic |-> FALSE, organic |-> <<>>],
     [raises |-> FALSE, has_organic |-> TRUE, organic |-> <<>>],
     [raises |-> FALSE, has_organic |-> TRUE, organic |-> <<[link |-> TRUE]>>],
     [raises |-> FALSE, has_organic |-> TRUE,
      organic |-> <<[link |-> FALSE], [link |-> TRUE]>>]}

\* search.get_dict().get("organic_results", []); no try/except around it
search_google(out) ==
    IF out.raises THEN [raised |-> TRUE, results |-> <<>>]
    ELSE [raised |-> FALSE,
          results |-> IF out.has_organic THEN out.organic ELSE <<>>]

(* ------------------------------------------------------------------ *)
(* extract_company_info                                                *)
(* ------------------------------------------------------------------ *)
Transports == {"ok", "network_error", "bad_body", "not_object"}
SuccessValues == {"true", "false", "null"}
IdValues == {"null", "empty_string", "abc123", "job42"}

Submission(t, s, i) == [transport |-> t, success |-> s, id |-> i]

SubmitResponses ==
    {Submission("ok", s, i) : s \in SuccessValues, i \in IdValues}
    \cup {Submission(t, "null", "null") : t \in Transports \ {"ok"}}

\* the missing id is not checked
ExtractOutcomeNoIdCheck(sub) ==
    IF sub.transport # "ok" THEN "none"
    ELSE IF ~Truthy(sub.success) THEN "none"
    ELSE "poll"

\* Lines 113-144: "poll" when polling starts, "none" when None is returned.
ExtractOutcome(sub) ==
    IF sub.transport # "ok" THEN "none"
    ELSE IF ~Truthy(sub.success) THEN "none"
    ELSE IF ~Truthy(sub.id) THEN "none"
    ELSE "poll"

(* ------------------------------------------------------------------ *)
(* poll_firecrawl_result                                               *)
(* ------------------------------------------------------------------ *)
StatusTransports == Transports \cup {"http_error"}
DataValues == {"null", "empty_object", "d1", "d2"}

Status(t, s, d) == [transport |-> t, success |-> s, data |-> d]
NoStatus == Status("none", "null", "null")

StatusResponses ==
    {Status("ok", s, d) : s \in SuccessValues, d \in DataValues}
    \cup {Status(t, "null", "null") : t \in StatusTransports \ {"ok"}}

\* the status URL names a fixed job
StatusUrlIdFixed(id) == "abc123"

\* url = f"https://api.firecrawl.dev/v1/extract/{extraction_id}"
StatusUrlId(id) == id

\* range(1, max_attempts + 2)
LastAttemptOffByOne(m) == m + 1

\* for attempt in range(1, max_attempts + 1)
LastAttempt(m) == m

\* success=false is waited on like a pending job
PollBranchRetryError(r) ==
    IF r.transport # "ok" THEN "exception"
    ELSE IF Truthy(r.success) /\ Truthy(r.data) THEN "data"
    ELSE "pending"

\* a pending job is reported as an API error
PollBranchNoWait(r) ==
    IF r.transport # "ok" THEN "exception"
    ELSE IF Truthy(r.success) /\ Truthy(r.data) THEN "data"
    ELSE "error"

\* a failed request is retried on the next attempt
PollBranchRetryException(r) ==
    IF r.transport # "ok" THEN "pending"
    ELSE IF Truthy(r.success) /\ Truthy(r.data) THEN "data"
    ELSE IF Truthy(r.success) /\ ~Truthy(r.data) THEN "pending"
    ELSE "error"

\* Lines 154-175: what one iteration does with the response.
PollBranch(r) ==
    IF r.transport # "ok" THEN "exception"
    ELSE IF Truthy(r.success) /\ Truthy(r.data) THEN "data"
    ELSE IF Truthy(r.success) /\ ~Truthy(r.data) THEN "pending"
    ELSE "error"

(* ------------------------------------------------------------------ *)
(* main                                                                *)
(* ------------------------------------------------------------------ *)
\* the early return on an empty search is missing
SearchFoundAlways(results) == TRUE

\* if not serp_results: return
SearchFound(results) == results # <<>>

\* if not selected_urls: return
UrlsFound(urls) == urls # <<>>

(* ------------------------------------------------------------------ *)
(* State                                                               *)
(* ------------------------------------------------------------------ *)
VARIABLES
    entry,            \* the function called: "main", "poll", "select"
    pc,               \* where the single thread stands
    serp_results,     \* main's serp_results
    llm_response,     \* the LLM response select_urls_with_r1 received
    selected_urls,    \* what select_urls_with_r1 returned
    submit_response,  \* the response to the extraction POST
    extraction_id,    \* poll_firecrawl_result's extraction_id
    interval,         \* poll_firecrawl_result's interval
    max_attempts,     \* poll_firecrawl_result's max_attempts
    attempt,          \* the loop variable
    last_response,    \* the latest status response
    poll_result,      \* what poll_firecrawl_result returned
    poll_end,         \* why it returned
    data,             \* main's data
    report,           \* what main printed last
    raised,           \* an exception left the entry function
    log,              \* the external calls made, in order
    seen              \* history of the status responses received

vars ==
    <<entry, pc, serp_results, llm_response, selected_urls, submit_response,
      extraction_id, interval, max_attempts, attempt, last_response,
      poll_result, poll_end, data, report, raised, log, seen>>

Call(op, id, secs) == [op |-> op, id |-> id, secs |-> secs]

NoLLM == LLM("none", "none", "scalar", <<>>, <<>>)
NoSubmission == Submission("none", "null", "null")

\* What the responses were, whatever the code did with them: the index of
\* the first one of each class (0: none yet), the first data payloads, and
\* the number with success true and no data.
SeenNone ==
    [nonnull |-> 0, truthy |-> 0, failed |-> 0, refused |-> 0,
     nonnull_data |-> "null", truthy_data |-> "null", pending |-> 0]

First(old, hit, n) == IF old = 0 /\ hit THEN n ELSE old

Observe(s, r, n) ==
    LET ok == r.transport = "ok"
        yes == ok /\ r.success = "true"
    IN [nonnull |-> First(s.nonnull, yes /\ r.data # "null", n),
        truthy |-> First(s.truthy, yes /\ r.data \in {"d1", "d2"}, n),
        failed |-> First(s.failed, ~ok, n),
        refused |-> First(s.refused, ok /\ r.success # "true", n),
        nonnull_data |-> IF s.nonnull = 0 /\ yes /\ r.data # "null"
                         THEN r.data ELSE s.nonnull_data,
        truthy_data |-> IF s.truthy = 0 /\ yes /\ r.data \in {"d1", "d2"}
                        THEN r.data ELSE s.truthy_data,
        pending |-> s.pending
                    + (IF yes /\ r.data \in {"null", "empty_object"} THEN 1 ELSE 0)]

RECURSIVE Count(_, _)
Count(l, op) ==
    IF l = <<>> THEN 0
    ELSE (IF Head(l).op = op THEN 1 ELSE 0) + Count(Tail(l), op)

Gets == Count(log, "get")
Sleeps == Count(log, "sleep")

InitCommon ==
    /\ serp_results = <<>>
    /\ llm_response = NoLLM
    /\ selected_urls = <<>>
    /\ submit_response = NoSubmission
    /\ last_response = NoStatus
    /\ poll_result = "unset"
    /\ poll_end = "unset"
    /\ data = "unset"
    /\ report = "none"
    /\ raised = FALSE
    /\ log = <<>>
    /\ seen = SeenNone

\* main(), or poll_firecrawl_result(extraction_id, api_key, interval, max_attempts)
Init ==
    /\ InitCommon
    /\ \/ /\ entry = "main"
          /\ pc = "search"
          /\ extraction_id = "null"
          /\ interval = DefaultInterval
          /\ max_attempts = DefaultMaxAttempts
          /\ attempt = 0
       \/ /\ entry = "poll"
          /\ pc = "poll"
          /\ extraction_id \in {"abc123", "job42"}
          /\ interval \in {1, DefaultInterval}
          /\ max_attempts \in 0..MaxAttemptsArg
          /\ attempt = 1

\* select_urls_with_r1(company, objective, serp_results)
InitSelect ==
    /\ InitCommon
    /\ entry = "select"
    /\ pc = "select"
    /\ extraction_id = "null"
    /\ interval = DefaultInterval
    /\ max_attempts = DefaultMaxAttempts
    /\ attempt = 0

(* ------------------------------------------------------------------ *)
(* Steps                                                               *)
(* ------------------------------------------------------------------ *)
\* Lines 184-187
MainSearch ==
    /\ pc = "search"
    /\ \E out \in SearchOutcomes :
         LET r == search_google(out)
         IN /\ log' = Append(log, Call("search", "null", 0))
            /\ raised' = r.raised
            /\ serp_results' = r.results
            /\ pc' = IF r.raised THEN "done"
                     ELSE IF SearchFound(r.results) THEN "select" ELSE "done"
    /\ UNCHANGED <<entry, llm_response, selected_urls, submit_response,
                   extraction_id, interval, max_attempts, attempt,
                   last_response, poll_result, poll_end, data, report, seen>>

\* select_urls_with_r1 receives resp from the LLM and returns
SelectOn(resp) ==
    LET r == select_urls_with_r1(resp)
    IN /\ log' = Append(log, Call("llm", "null", 0))
       /\ llm_response' = resp
       /\ raised' = r.raised
       /\ selected_urls' = r.urls
       /\ pc' = IF entry = "main" /\ ~r.raised /\ UrlsFound(r.urls)
                THEN "extract" ELSE "done"
       /\ UNCHANGED <<entry, serp_results, submit_response, extraction_id,
                      interval, max_attempts, attempt, last_response,
                      poll_result, poll_end, data, report, seen>>

\* Lines 190-194
MainSelect ==
    /\ pc = "select"
    /\ entry = "main"
    /\ \E resp \in PipelineLLMResponses : SelectOn(resp)

\* select_urls_with_r1 on a response holding a selected_urls array
SelectArray ==
    /\ pc = "select"
    /\ entry = "select"
    /\ \E n \in 0..MaxUrls : \E items \in [1..n -> UrlItems] :
          SelectOn(ArrayResponse(items))

\* select_urls_with_r1 on a response that is no JSON
SelectText ==
    /\ pc = "select"
    /\ entry = "select"
    /\ \E n \in 0..MaxUrls : \E lines \in [1..n -> UrlStrings] :
          SelectOn(TextResponse(lines))

\* select_urls_with_r1 on the other responses
SelectOther ==
    /\ pc = "select"
    /\ entry = "select"
    /\ \E resp \in OddResponses \cup OtherJsonResponses : SelectOn(resp)

\* Line 196 and lines 98-144, up to the call of poll_firecrawl_result
Submit ==
    /\ pc = "extract"
    /\ \E sub \in SubmitResponses :
         /\ log' = Append(log, Call("post", "null", 0))
         /\ submit_response' = sub
         /\ IF ExtractOutcome(sub) = "poll"
            THEN /\ extraction_id' = sub.id
                 /\ attempt' = 1
                 /\ pc' = "poll"
                 /\ data' = data
            ELSE /\ data' = "None"
                 /\ pc' = "report"
                 /\ UNCHANGED <<extraction_id, attempt>>
    /\ UNCHANGED <<entry, serp_results, llm_response, selected_urls, interval,
                   max_attempts, last_response, poll_result, poll_end, report,
                   raised, seen>>

\* poll_firecrawl_result returns v: to extract_company_info and main, or to
\* its caller.
PollReturn(v, why) ==
    /\ poll_result' = v
    /\ poll_end' = why
    /\ data' = IF entry = "main" THEN v ELSE data
    /\ pc' = IF entry = "main" THEN "report" ELSE "done"

\* Lines 153-175: one iteration up to its return or its sleep
PollGet ==
    /\ pc = "poll"
    /\ attempt <= LastAttempt(max_attempts)
    /\ \E r \in StatusResponses :
         /\ log' = Append(log, Call("get", StatusUrlId(extraction_id), 0))
         /\ last_response' = r
         /\ seen' = Observe(seen, r, Gets + 1)
         /\ IF PollBranch(r) = "data" THEN PollReturn(r.data, "data")
            ELSE IF PollBranch(r) = "pending"
                 THEN /\ pc' = "sleep"
                      /\ UNCHANGED <<poll_result, poll_end, data>>
            ELSE PollReturn("None", PollBranch(r))
    /\ UNCHANGED <<entry, serp_results, llm_response, selected_urls,
                   submit_response, extraction_id, interval, max_attempts,
                   attempt, report, raised>>

\* Line 165: time.sleep(interval), then the next iteration
PollSleep ==
    /\ pc = "sleep"
    /\ log' = Append(log, Call("sleep", "null", interval))
    /\ attempt' = attempt + 1
    /\ pc' = "poll"
    /\ UNCHANGED <<entry, serp_results, llm_response, selected_urls,
                   submit_response, extraction_id, interval, max_attempts,
                   last_response, poll_result, poll_end, data, report, raised,
                   seen>>

\* Lines 177-178: the loop is exhausted
PollTimeout ==
    /\ pc = "poll"
    /\ attempt > LastAttempt(max_attempts)
    /\ PollReturn("None", "timeout")
    /\ UNCHANGED <<entry, serp_results, llm_response, selected_urls,
                   submit_response, extraction_id, interval, max_attempts,
                   attempt, last_response, report, raised, log, seen>>

\* Lines 198-201
MainReport ==
    /\ pc = "report"
    /\ report' = IF Truthy(data) THEN "success" ELSE "failure"
    /\ pc' = "done"
    /\ UNCHANGED <<entry, serp_results, llm_response, selected_urls,
                   submit_response, extraction_id, interval, max_attempts,
                   attempt, last_response, poll_result, poll_end, data, raised,
                   log, seen>>

Next ==
    \/ MainSearch
    \/ MainSelect
    \/ Submit
    \/ PollGet
    \/ PollSleep
    \/ PollTimeout
    \/ MainReport

NextSelect ==
    \/ SelectArray
    \/ SelectText
    \/ SelectOther

Spec == Init /\ [][Next]_vars

\* One thread runs to its return: every request carries timeout=30 and the
\* sleep is finite, so an enabled step is eventually taken.
FairSpec == Init /\ [][Next]_vars /\ WF_vars(Next)

SpecSelect == InitSelect /\ [][NextSelect]_vars

(* ------------------------------------------------------------------ *)
(* Properties                                                          *)
(* ------------------------------------------------------------------ *)
LastCall == log[Len(log)]
Polling == pc \in {"poll", "sleep"}
PollOver == poll_end # "unset"
RealIds == {"abc123", "job42"}

Contains(s, a, b) == \E i \in 1..(Len(s) - 1) : s[i] = a /\ s[i + 1] = b

\* What C1 says of every state: at most max_attempts status GETs, and a run
\* in which every response had success true and no data ends only by the
\* timeout, after exactly max_attempts GETs (12 when main runs it), with None.
C1_Bounded ==
    /\ Gets <= max_attempts
    /\ (PollOver /\ seen.pending = Gets) =>
          /\ poll_end = "timeout"
          /\ poll_result = "None"
          /\ Gets = max_attempts
          /\ (entry = "main" => Gets = DefaultMaxAttempts)
    /\ poll_end = "timeout" => Gets = max_attempts /\ seen.pending = Gets

\* C1: for every max_attempts and every sequence of status responses,
\* polling terminates having issued at most max_attempts GETs, and when
\* every response is pending it issues exactly max_attempts GETs (12 by
\* default) and ends with the timeout outcome, None.
C1_PollTerminates == [](C1_Bounded) /\ <>(pc = "done")

C1_Witness ==
    /\ entry = "main"
    /\ pc = "done"
    /\ poll_end = "timeout"
    /\ Gets = DefaultMaxAttempts
    /\ seen.pending = DefaultMaxAttempts

\* Every status GET names the id polling was started with, which in main is
\* the id of the submission response.
GetsUseTheId ==
    \A i \in 1..Len(log) :
        log[i].op = "get" =>
            /\ log[i].id = extraction_id
            /\ log[i].id \in RealIds
            /\ entry = "main" => log[i].id = submit_response.id

\* C2 as stated: every status GET names the submitted id, and polling
\* returns the data of the first response with success true and data that
\* is not null.
C2_Original ==
    /\ GetsUseTheId
    /\ seen.nonnull # 0 =>
          /\ poll_end = "data"
          /\ poll_result = seen.nonnull_data
          /\ Gets = seen.nonnull

\* C2 amended: every status GET names the submitted id, and polling returns
\* the data of the first response with success true and data that is
\* neither null nor empty; it returns data in no other case.
C2_Amended ==
    /\ GetsUseTheId
    /\ seen.truthy # 0 =>
          /\ poll_end = "data"
          /\ poll_result = seen.truthy_data
          /\ Gets = seen.truthy
    /\ poll_end = "data" => seen.truthy # 0
    /\ poll_result \notin {"unset", "None"} => poll_end = "data"

C2_Witness ==
    /\ entry = "main"
    /\ pc = "done"
    /\ submit_response.id = "job42"
    /\ poll_result = "d2"
    /\ seen.nonnull # 0
    /\ seen.nonnull < seen.truthy

\* C3: once a status response without success true has arrived, polling is
\* over: None is returned, that GET is the last call, and no wait follows it.
C3_AbortOnFailure ==
    seen.refused # 0 =>
        /\ Gets = seen.refused
        /\ Sleeps = seen.refused - 1
        /\ LastCall.op = "get"
        /\ poll_end = "error"
        /\ poll_result = "None"
        /\ ~Polling

C3_Witness ==
    /\ pc = "done"
    /\ seen.refused = 3
    /\ max_attempts > 3
    /\ last_response.success = "false"

SubmissionAccepted ==
    /\ submit_response.transport = "ok"
    /\ submit_response.success = "true"
    /\ submit_response.id \in RealIds

\* C4: after a submission response without success true or without a
\* non-empty id, extract_company_info has returned None and no status GET
\* is ever issued; in main, polling runs only after an accepted submission.
C4_NoPollWithoutId ==
    /\ (submit_response # NoSubmission /\ ~SubmissionAccepted) =>
          /\ data = "None"
          /\ Gets = 0
          /\ ~PollOver
          /\ pc \in {"report", "done"}
    /\ (entry = "main" /\ (Polling \/ PollOver \/ Gets > 0)) => SubmissionAccepted

C4_Witness ==
    /\ pc = "done"
    /\ submit_response = Submission("ok", "true", "null")
    /\ report = "failure"
    /\ Gets = 0

HttpWord == <<"h", "t", "t", "p">>
Selected == selected_urls
ByLineScan == llm_response.api = "ok" /\ llm_response.doc \in {"invalid", "other"}
ByJsonArray ==
    /\ llm_response.api = "ok"
    /\ llm_response.doc = "object_urls"
    /\ llm_response.kind = "array"

\* C5 as stated: the returned list holds only non-empty strings that begin
\* with http, hold no wildcard marker and no trailing slash, and no two of
\* them are equal after trimming.
C5_Original ==
    /\ \A i \in 1..Len(Selected) :
          /\ Selected[i] # <<>>
          /\ StartsWith(Selected[i], HttpWord)
          /\ ~Contains(Selected[i], "/", "*")
          /\ Selected[i][Len(Selected[i])] # "/"
    /\ \A i, j \in 1..Len(Selected) :
          i # j => Strip(Selected[i]) # Strip(Selected[j])

SourceHasDoubleStar ==
    \/ Contains(llm_response.content, "*", "*")
    \/ \E i \in 1..Len(llm_response.items) :
          Contains(llm_response.items[i].chars, "*", "*")

\* C5 amended: the returned list holds only non-empty strings without a
\* trailing slash; a wildcard marker remains in one only where the source
\* held two stars in a row; the entries begin with http when they come from
\* the line scan, while a selected_urls array is not filtered by scheme; and
\* duplicates are kept: an array of strings gives one entry per element
\* whose cleaned form is not empty.
C5_Amended ==
    /\ \A i \in 1..Len(Selected) :
          /\ Selected[i] # <<>>
          /\ Selected[i][Len(Selected[i])] # "/"
          /\ ByLineScan => StartsWith(Selected[i], HttpWord)
          /\ Contains(Selected[i], "/", "*") => SourceHasDoubleStar
    /\ (ByJsonArray /\ \A i \in 1..Len(llm_response.items) :
                          llm_response.items[i].isstr) =>
          Len(Selected) =
             Cardinality({i \in 1..Len(llm_response.items) :
                 RStripSlash(ReplaceWildcard(llm_response.items[i].chars)) # <<>>})

C5_Witness ==
    /\ pc = "done"
    /\ ByJsonArray
    /\ Len(Selected) = 2
    /\ Selected[1] = Selected[2]
    /\ ~StartsWith(Selected[1], HttpWord)
    /\ llm_response.items[1] # llm_response.items[2]

\* The lines of the response whose trimmed text starts with http:// or
\* https://, by position.
UrlLineIndexes ==
    LET lines == SplitLines(llm_response.content)
    IN {i \in 1..Len(lines) :
          LET t == Strip(lines[i])
          IN \/ (Len(t) >= 7 /\ SubSeq(t, 1, 7) = HttpPrefix)
             \/ (Len(t) >= 8 /\ SubSeq(t, 1, 8) = HttpsPrefix)}

NthUrlLine(k) ==
    LET i == CHOOSE n \in UrlLineIndexes :
                 Cardinality({m \in UrlLineIndexes : m <= n}) = k
    IN SplitLines(llm_response.content)[i]

\* C6: when the content is not JSON, or is JSON without selected_urls, no
\* exception leaves select_urls_with_r1 and it returns, in order, the
\* cleaned form of each line whose trimmed text starts with http:// or
\* https://.
C6_LineScanFallback ==
    (pc = "done" /\ ByLineScan) =>
        /\ ~raised
        /\ Len(Selected) = Cardinality(UrlLineIndexes)
        /\ \A k \in 1..Len(Selected) :
              Selected[k] = RStripSlash(ReplaceWildcard(Strip(NthUrlLine(k))))

C6_Witness ==
    /\ pc = "done"
    /\ llm_response.doc = "invalid"
    /\ Len(SplitLines(llm_response.content)) = 2
    /\ Len(Selected) = 1
    /\ Selected[1] # Strip(NthUrlLine(1))

\* C7: no exception leaves main: it always runs to a normal return.
C7_NoExceptionEscapes == entry = "main" => ~raised

OpAt(i) == log[i].op

\* C8: main calls search first, then the LLM, then the extraction POST, then
\* status GETs and waits, the first three once each; the LLM is called only
\* after a non-empty search result, the POST only after a non-empty
\* selection, and a status GET only after an accepted submission.
C8_PipelineOrder ==
    entry = "main" =>
        /\ \A i \in 1..Len(log) :
              /\ OpAt(i) = "search" <=> i = 1
              /\ OpAt(i) = "llm" <=> i = 2
              /\ OpAt(i) = "post" <=> i = 3
              /\ OpAt(i) \in {"get", "sleep"} <=> i > 3
        /\ Len(log) >= 2 => serp_results # <<>> /\ ~raised
        /\ Len(log) >= 3 => selected_urls # <<>>
        /\ Len(log) >= 4 => SubmissionAccepted
        /\ Len(log) = 0 <=> pc = "search"

C8_Witness ==
    /\ entry = "main"
    /\ pc = "done"
    /\ Len(log) = 6
    /\ OpAt(4) = "get" /\ OpAt(5) = "sleep" /\ OpAt(6) = "get"
    /\ report = "success"

NoDataYet(r) ==
    r.transport = "ok" /\ r.success = "true" /\ r.data \in {"null", "empty_object"}

FirstStop ==
    LET S == {seen.failed, seen.truthy, seen.refused} \ {0}
    IN IF S = {} THEN 0 ELSE CHOOSE n \in S : \A m \in S : n <= m

\* C10: a failed status request ends polling at once with None, and polling
\* that ended before the timeout issued exactly as many GETs as the index
\* of the first attempt that failed, returned data or reported no success.
C10_NoRetryOnFailure ==
    /\ seen.failed # 0 =>
          /\ Gets = seen.failed
          /\ poll_end = "exception"
          /\ poll_result = "None"
          /\ ~Polling
    /\ FirstStop # 0 => Gets = FirstStop /\ PollOver
    /\ poll_end \in {"data", "error", "exception"} => FirstStop = Gets

C10_Witness ==
    /\ pc = "done"
    /\ seen.failed = 3
    /\ max_attempts >= 5
    /\ last_response.transport = "http_error"

====
